---- MODULE Spec2Model ----
(***************************************************************************)
(* CopyFilesOverSSHV0/copyfilesoverssh.ts: the file selection of           *)
(* getFilesToCopy and the copy run of run().                               *)
(*                                                                         *)
(* Strings are sequences of one-character strings.  The host platform is   *)
(* POSIX: path.join is path.posix.join and the matcher is case sensitive.  *)
(***************************************************************************)
EXTENDS Integers, Sequences, FiniteSets, TLC

(***************************************************************************)
(* String primitives of the JavaScript runtime used by the task.           *)
(***************************************************************************)
RECURSIVE TrimLeft(_)
TrimLeft(s) ==
    IF s # <<>> /\ Head(s) = " " THEN TrimLeft(Tail(s)) ELSE s

RECURSIVE TrimRight(_)
TrimRight(s) ==
    IF s # <<>> /\ s[Len(s)] = " " THEN TrimRight(SubSeq(s, 1, Len(s) - 1)) ELSE s

\* String.prototype.trim
Trim(s) == TrimRight(TrimLeft(s))

\* String.prototype.substring(start), start counted from 0
Substring(s, start) == SubSeq(s, start + 1, Len(s))

\* String.prototype.substring(0, end)
Prefix(s, end) == SubSeq(s, 1, end)

\* the scan of the leading `!` characters: toggles negate, counts them
RECURSIVE ScanNegations(_, _, _)
ScanNegations(p, negate, n) ==
    IF p # <<>> /\ Head(p) = "!"
    THEN ScanNegations(Tail(p), ~negate, n + 1)
    ELSE [negate |-> negate, numberOfNegations |-> n]

\* String.prototype.split("/")
RECURSIVE SplitSep(_, _, _)
SplitSep(s, cur, acc) ==
    IF s = <<>> THEN Append(acc, cur)
    ELSE IF Head(s) = "/" THEN SplitSep(Tail(s), <<>>, Append(acc, cur))
    ELSE SplitSep(Tail(s), Append(cur, Head(s)), acc)

Split(s) == SplitSep(s, <<>>, <<>>)

RECURSIVE CollapseSlashes(_)
CollapseSlashes(s) ==
    IF Len(s) < 2 THEN s
    ELSE IF s[1] = "/" /\ s[2] = "/" THEN CollapseSlashes(Tail(s))
    ELSE <<Head(s)>> \o CollapseSlashes(Tail(s))

\* String.prototype.split(/\/+/)
SlashSplit(s) == Split(CollapseSlashes(s))

\* Array.prototype.join("/")
RECURSIVE JoinSep(_)
JoinSep(segs) ==
    IF segs = <<>> THEN <<>>
    ELSE IF Len(segs) = 1 THEN segs[1]
    ELSE segs[1] \o <<"/">> \o JoinSep(Tail(segs))

(***************************************************************************)
(* path.posix of the runtime.                                              *)
(***************************************************************************)
RECURSIVE NormalizeSegs(_, _, _)
NormalizeSegs(segs, acc, allowAboveRoot) ==
    IF segs = <<>> THEN acc
    ELSE LET seg == Head(segs)
             rest == Tail(segs)
         IN IF seg = <<>> \/ seg = <<".">>
            THEN NormalizeSegs(rest, acc, allowAboveRoot)
            ELSE IF seg = <<".", ".">>
            THEN IF acc # <<>> /\ acc[Len(acc)] # <<".", ".">>
                 THEN NormalizeSegs(rest, SubSeq(acc, 1, Len(acc) - 1), allowAboveRoot)
                 ELSE IF allowAboveRoot
                 THEN NormalizeSegs(rest, Append(acc, seg), allowAboveRoot)
                 ELSE NormalizeSegs(rest, acc, allowAboveRoot)
            ELSE NormalizeSegs(rest, Append(acc, seg), allowAboveRoot)

\* path.posix.normalize
PathNormalize(p) ==
    IF p = <<>> THEN <<".">>
    ELSE LET isAbsolute == Head(p) = "/"
             trailingSeparator == p[Len(p)] = "/"
             body == JoinSep(NormalizeSegs(Split(p), <<>>, ~isAbsolute))
             body1 == IF body = <<>> /\ ~isAbsolute THEN <<".">> ELSE body
             body2 == IF body1 # <<>> /\ trailingSeparator
                      THEN body1 \o <<"/">> ELSE body1
         IN IF isAbsolute THEN <<"/">> \o body2 ELSE body2

\* path.posix.join(a, b)
PathJoin(a, b) ==
    IF a = <<>> /\ b = <<>> THEN <<".">>
    ELSE IF a = <<>> THEN PathNormalize(b)
    ELSE IF b = <<>> THEN PathNormalize(a)
    ELSE PathNormalize(a \o <<"/">> \o b)

\* the last non-empty element of a segment list, <<>> when there is none
RECURSIVE LastNonEmpty(_)
LastNonEmpty(segs) ==
    IF segs = <<>> THEN <<>>
    ELSE IF segs[Len(segs)] # <<>> THEN segs[Len(segs)]
    ELSE LastNonEmpty(SubSeq(segs, 1, Len(segs) - 1))

\* path.basename
Basename(p) == LastNonEmpty(Split(p))

(***************************************************************************)
(* minimatch.match(list, pattern, options) as the task calls it: `*`       *)
(* inside a path segment, `**` as a whole segment, a leading run of `!`    *)
(* as negation, `#` as a comment.                                          *)
(***************************************************************************)
GLOBSTAR == <<"*", "*">>

HasMagic(seg) == \E i \in 1..Len(seg) : seg[i] = "*"

\* the regular expression of a segment: each `*` is [^/]*?
RECURSIVE WildMatch(_, _)
WildMatch(p, f) ==
    IF p = <<>> THEN f = <<>>
    ELSE IF Head(p) = "*"
    THEN WildMatch(Tail(p), f) \/ (f # <<>> /\ WildMatch(p, Tail(f)))
    ELSE f # <<>> /\ Head(f) = Head(p) /\ WildMatch(Tail(p), Tail(f))

\* a file segment that `**` and a leading `*` refuse
DotSegment(f, options) ==
    \/ f = <<".">>
    \/ f = <<".", ".">>
    \/ (~options.dot /\ f # <<>> /\ Head(f) = ".")

\* one parsed pattern segment against one file segment
SegMatch(p, f, options) ==
    IF ~HasMagic(p) THEN f = p
    ELSE /\ f # <<>>
         /\ (Head(p) = "*" => ~DotSegment(f, options))
         /\ WildMatch(p, f)

\* Minimatch.prototype.matchOne(file, pattern, partial = false)
RECURSIVE MatchOne(_, _, _)
MatchOne(file, pattern, options) ==
    IF file = <<>> /\ pattern = <<>> THEN TRUE
    ELSE IF file = <<>> THEN FALSE
    ELSE IF pattern = <<>> THEN Len(file) = 1 /\ file[1] = <<>>
    ELSE IF Head(pattern) = GLOBSTAR
    THEN IF Len(pattern) = 1
         THEN \A i \in 1..Len(file) : ~DotSegment(file[i], options)
         ELSE \E fr \in 1..Len(file) :
                 /\ \A k \in 1..(fr - 1) : ~DotSegment(file[k], options)
                 /\ MatchOne(SubSeq(file, fr, Len(file)), Tail(pattern), options)
    ELSE /\ SegMatch(Head(pattern), Head(file), options)
         /\ MatchOne(Tail(file), Tail(pattern), options)

\* Minimatch.prototype.match(f) of new Minimatch(pattern, options)
MinimatchOne(f, pattern, options) ==
    LET p0 == Trim(pattern)
    IN IF p0 # <<>> /\ Head(p0) = "#" THEN FALSE
       ELSE IF p0 = <<>> THEN f = <<>>
       ELSE LET neg == ScanNegations(p0, FALSE, 0)
                set == SlashSplit(Substring(p0, neg.numberOfNegations))
                fsegs == SlashSplit(f)
                file == IF options.matchBase /\ Len(set) = 1
                        THEN <<LastNonEmpty(fsegs)>> ELSE fsegs
            IN IF MatchOne(file, set, options) THEN ~neg.negate ELSE neg.negate

\* minimatch.match(list, pattern, options)
MinimatchMatch(list, pattern, options) ==
    SelectSeq(list, LAMBDA f : MinimatchOne(f, pattern, options))

(***************************************************************************)
(* getFilesToCopy(sourceFolder, contents), one operator per block of it.   *)
(* paths is what tl.find(sourceFolder) returns: the entries below the   *)
(* source folder, each with the isDirectory() of its tl.stats.             *)
(***************************************************************************)
\* const matchOptions = { matchBase: true, dot: true }
matchOptions == [matchBase |-> TRUE, dot |-> TRUE, nocase |-> FALSE]

\* ClassifyPattern with any leading `!` taken as a negation
ClassifyPatternAnyNegation(folder, rawPattern) ==
    LET pattern == Trim(rawPattern)
        n == ScanNegations(pattern, FALSE, 0).numberOfNegations
    IN IF n > 0
       THEN [negate |-> TRUE,
             realPattern |-> Prefix(pattern, n)
                                \o PathJoin(folder, Substring(pattern, n))]
       ELSE [negate |-> FALSE,
             realPattern |-> PathJoin(folder, pattern)]

\* the body of the classification loop for one raw pattern
ClassifyPattern(folder, rawPattern) ==
    LET pattern == Trim(rawPattern)
        scan == ScanNegations(pattern, FALSE, 0)
        n == scan.numberOfNegations
    IN IF scan.negate
       THEN [negate |-> TRUE,
             realPattern |-> Prefix(pattern, n)
                                \o PathJoin(folder, Substring(pattern, n))]
       ELSE [negate |-> FALSE,
             realPattern |-> PathJoin(folder, pattern)]

\* includeContents after the classification loop
RECURSIVE IncludeContentsOf(_, _)
IncludeContentsOf(folder, patterns) ==
    IF patterns = <<>> THEN <<>>
    ELSE LET c == ClassifyPattern(folder, Head(patterns))
         IN (IF c.negate THEN <<>> ELSE <<c.realPattern>>)
                \o IncludeContentsOf(folder, Tail(patterns))

\* excludeContents after the classification loop
RECURSIVE ExcludeContentsOf(_, _)
ExcludeContentsOf(folder, patterns) ==
    IF patterns = <<>> THEN <<>>
    ELSE LET c == ClassifyPattern(folder, Head(patterns))
         IN (IF c.negate THEN <<c.realPattern>> ELSE <<>>)
                \o ExcludeContentsOf(folder, Tail(patterns))

\* allFiles: the paths of allPaths that are not directories
RECURSIVE RemoveFolders(_)
RemoveFolders(paths) ==
    IF paths = <<>> THEN <<>>
    ELSE (IF Head(paths).isDirectory THEN <<>> ELSE <<Head(paths).path>>)
            \o RemoveFolders(Tail(paths))

\* AddIncludeAll with the include-all filter left out
AddIncludeAllNever(inc, exc) == inc

\* if we only have exclude filters, add an include-all filter
AddIncludeAll(inc, exc) ==
    IF Len(inc) = 0 /\ Len(exc) > 0 THEN Append(inc, GLOBSTAR) ELSE inc

\* PushUnseen without the test of pathsSeen
PushAll(matches, fs, seen) ==
    [files |-> fs \o matches,
     pathsSeen |-> seen \cup {matches[i] : i \in 1..Len(matches)}]

\* the inner loop of the include filter: push the matches not seen yet
RECURSIVE PushUnseen(_, _, _)
PushUnseen(matches, fs, seen) ==
    IF matches = <<>> THEN [files |-> fs, pathsSeen |-> seen]
    ELSE IF Head(matches) \in seen THEN PushUnseen(Tail(matches), fs, seen)
    ELSE PushUnseen(Tail(matches), Append(fs, Head(matches)),
                    seen \cup {Head(matches)})

\* one iteration of the include filter
IncludeFilter(fs, seen, all, pattern) ==
    PushUnseen(MinimatchMatch(all, pattern, matchOptions), fs, seen)

\* ExcludeFilter matching the enumerated files instead of the working result
ExcludeFilterOverAllFiles(fs, all, pattern) ==
    MinimatchMatch(all, pattern, matchOptions)

\* ExcludeFilter with the negation of the pattern dropped
ExcludeFilterWithoutNegation(fs, all, pattern) ==
    MinimatchMatch(fs, Substring(pattern, ScanNegations(pattern, FALSE, 0).numberOfNegations),
                   matchOptions)

\* one iteration of the exclude filter: files becomes the matches among files
ExcludeFilter(fs, all, pattern) ==
    MinimatchMatch(fs, pattern, matchOptions)

RECURSIVE ApplyIncludes(_, _, _, _)
ApplyIncludes(inc, fs, seen, all) ==
    IF inc = <<>> THEN fs
    ELSE LET r == IncludeFilter(fs, seen, all, Head(inc))
         IN ApplyIncludes(Tail(inc), r.files, r.pathsSeen, all)

RECURSIVE ApplyExcludes(_, _, _)
ApplyExcludes(exc, fs, all) ==
    IF exc = <<>> THEN fs
    ELSE ApplyExcludes(Tail(exc), ExcludeFilter(fs, all, Head(exc)), all)

\* getFilesToCopy(folder, patterns) over the entries tl.find(folder) returns
getFilesToCopy(folder, patterns, paths) ==
    LET exc == ExcludeContentsOf(folder, patterns)
        inc == AddIncludeAll(IncludeContentsOf(folder, patterns), exc)
        all == RemoveFolders(paths)
    IN ApplyExcludes(exc, ApplyIncludes(inc, <<>>, {}, all), all)

(***************************************************************************)
(* Inputs.  The source folder is /s; a tree lists the entries tl.find      *)
(* returns for it, in its order (a folder before its entries, names        *)
(* sorted).                                                                *)
(***************************************************************************)
MaxPatterns == 3
MaxRunPatterns == 1

SourceFolder == <<"/", "s">>

Entry(p, d) == [path |-> p, isDirectory |-> d]

\* /s/.h  /s/a  /s/d/a
TreeA ==
    << Entry(<<"/", "s">>, TRUE),
       Entry(<<"/", "s", "/", ".", "h">>, FALSE),
       Entry(<<"/", "s", "/", "a">>, FALSE),
       Entry(<<"/", "s", "/", "d">>, TRUE),
       Entry(<<"/", "s", "/", "d", "/", "a">>, FALSE) >>

\* /s/.h  /s/a  /s/d/b
TreeB ==
    << Entry(<<"/", "s">>, TRUE),
       Entry(<<"/", "s", "/", ".", "h">>, FALSE),
       Entry(<<"/", "s", "/", "a">>, FALSE),
       Entry(<<"/", "s", "/", "d">>, TRUE),
       Entry(<<"/", "s", "/", "d", "/", "b">>, FALSE) >>

Trees == {TreeA, TreeB}

\* the source folder input names a file
NotAFolder == << Entry(<<"/", "s">>, FALSE) >>

RunTrees == {TreeA, NotAFolder}

\* the source folder input written with a trailing separator
SlashedSourceFolder == <<"/", "s", "/">>

\* /s/\/a  /s/\a  /s/a below /s/: a folder and a file whose names start with
\* a backslash
TreeSlashed ==
    << Entry(<<"/", "s", "/">>, TRUE),
       Entry(<<"/", "s", "/", "\\">>, TRUE),
       Entry(<<"/", "s", "/", "\\", "/", "a">>, FALSE),
       Entry(<<"/", "s", "/", "\\", "a">>, FALSE),
       Entry(<<"/", "s", "/", "a">>, FALSE) >>

\* values of the targetFolder input: empty, ~/t
TargetFolders == { <<>>, <<"~", "/", "t">> }

\* raw lines of the `contents` input
RawPatterns ==
    { <<"*", "*">>,
      <<"*">>,
      <<"a">>,
      <<" ", "*", "*", "/", "a", " ">>,
      <<"c">>,
      <<" ">>,
      <<"!">>,
      <<"!", "d", "/", "*", "*">>,
      <<"!", "a">>,
      <<"!", "!", "a">>,
      <<"!", "!", "!", "*", "*", "/", "a">> }

RECURSIVE SeqsUpTo(_, _)
SeqsUpTo(S, n) ==
    IF n = 0 THEN {<<>>}
    ELSE LET shorter == SeqsUpTo(S, n - 1)
         IN shorter \cup {Append(q, x) : q \in shorter, x \in S}

(***************************************************************************)
(* State.                                                                  *)
(***************************************************************************)
VARIABLES
    \* the task's inputs and the tree below the source folder
    sourceFolder, contents, allPaths,
    targetFolder, cleanTargetFolder, overwrite, failOnEmptySource, flattenFolders,
    \* the locals of getFilesToCopy and its position
    gpc, ix, includeContents, excludeContents, allFiles, pathsSeen, files,
    \* the locals of run and its position; log is the calls made on the
    \* SshHelper, result and warnings what tl.setResult and tl.warning got
    pc, sshHelper, filesToCopy, fileIndex, failureCount, result, warnings, log

inputs == <<sourceFolder, contents, allPaths>>
flags == <<cleanTargetFolder, overwrite, failOnEmptySource, flattenFolders>>
selection == <<gpc, ix, includeContents, excludeContents, allFiles, pathsSeen, files>>
task == <<targetFolder, pc, sshHelper, filesToCopy, fileIndex, failureCount, result,
          warnings, log>>
vars == <<inputs, flags, selection, task>>

NoResult == [status |-> "None", message |-> "", count |-> 0]

TaskIdle ==
    /\ pc = "start"
    /\ sshHelper = FALSE
    /\ filesToCopy = <<>>
    /\ fileIndex = 1
    /\ failureCount = 0
    /\ result = NoResult
    /\ warnings = <<>>
    /\ log = <<>>

SelectionIdle ==
    /\ gpc = "classify"
    /\ ix = 1
    /\ includeContents = <<>>
    /\ excludeContents = <<>>
    /\ allFiles = <<>>
    /\ pathsSeen = {}
    /\ files = <<>>

(***************************************************************************)
(* getFilesToCopy, statement by statement.                                 *)
(***************************************************************************)
SelInit ==
    /\ sourceFolder = SourceFolder
    /\ contents \in SeqsUpTo(RawPatterns, MaxPatterns)
    /\ allPaths \in Trees
    /\ targetFolder = <<>>
    /\ cleanTargetFolder = FALSE
    /\ overwrite = FALSE
    /\ failOnEmptySource = FALSE
    /\ flattenFolders = FALSE
    /\ SelectionIdle
    /\ TaskIdle

\* lines 17-38: one pattern of contents per step
ClassifyLoop ==
    /\ gpc = "classify"
    /\ ix <= Len(contents)
    /\ LET c == ClassifyPattern(sourceFolder, contents[ix])
       IN IF c.negate
          THEN /\ excludeContents' = Append(excludeContents, c.realPattern)
               /\ UNCHANGED includeContents
          ELSE /\ includeContents' = Append(includeContents, c.realPattern)
               /\ UNCHANGED excludeContents
    /\ ix' = ix + 1
    /\ UNCHANGED <<inputs, flags, task, gpc, allFiles, pathsSeen, files>>

\* lines 40-66: enumerate the files, add the include-all filter
EnumerateFiles ==
    /\ gpc = "classify"
    /\ ix > Len(contents)
    /\ allFiles' = RemoveFolders(allPaths)
    /\ includeContents' = AddIncludeAll(includeContents, excludeContents)
    /\ gpc' = "include"
    /\ ix' = 1
    /\ UNCHANGED <<inputs, flags, task, excludeContents, pathsSeen, files>>

\* lines 69-82: one include pattern per step
IncludeLoop ==
    /\ gpc = "include"
    /\ IF ix <= Len(includeContents)
       THEN LET r == IncludeFilter(files, pathsSeen, allFiles, includeContents[ix])
            IN /\ files' = r.files
               /\ pathsSeen' = r.pathsSeen
               /\ ix' = ix + 1
               /\ UNCHANGED gpc
       ELSE /\ gpc' = "exclude"
            /\ ix' = 1
            /\ UNCHANGED <<files, pathsSeen>>
    /\ UNCHANGED <<inputs, flags, task, includeContents, excludeContents, allFiles>>

\* lines 85-98: one exclude pattern per step, then return files
ExcludeLoop ==
    /\ gpc = "exclude"
    /\ IF ix <= Len(excludeContents)
       THEN /\ files' = ExcludeFilter(files, allFiles, excludeContents[ix])
            /\ ix' = ix + 1
            /\ UNCHANGED gpc
       ELSE /\ gpc' = "returned"
            /\ UNCHANGED <<files, ix>>
    /\ UNCHANGED <<inputs, flags, task, includeContents, excludeContents, allFiles, pathsSeen>>

SelNext == ClassifyLoop \/ EnumerateFiles \/ IncludeLoop \/ ExcludeLoop

SelSpec == SelInit /\ [][SelNext]_vars

\* the statements compute what the operator computes
ReturnsGetFilesToCopy ==
    gpc = "returned" => files = getFilesToCopy(sourceFolder, contents, allPaths)

(***************************************************************************)
(* run(): the helpers of its statements.                                   *)
(***************************************************************************)
\* lines 164-169: the default of targetFolder, and ~/ rewritten to ./
NormalizeTargetFolder(t) ==
    IF t = <<>> THEN <<".", "/">>
    ELSE IF Len(t) >= 2 /\ t[1] = "~" /\ t[2] = "/" THEN <<".", "/">> \o Substring(t, 2)
    ELSE t

\* tl.stats(p) of an entry of the tree
Stats(p) == CHOOSE e \in {allPaths[i] : i \in 1..Len(allPaths)} : e.path = p

\* getCleanTargetFolderCmd: the command text, its fixed parts as single tokens
getCleanTargetFolderCmd(folder, isWindowsOnTarget) ==
    IF isWindowsOnTarget
    THEN <<"del /q \"">> \o folder \o <<"\\*\" && FOR /D %p IN (\"">> \o folder
            \o <<"\\*.*\") DO rmdir \"%p\" /s /q">>
    ELSE <<"bash -c \"rm -rf '">> \o folder \o <<"'/*\"">>

\* String.prototype.replace(/^c/g, "")
StripLeading(c, str) == IF str # <<>> /\ Head(str) = c THEN Tail(str) ELSE str

\* RelativePath with the folders kept when flattenFolders is set
RelativePathNeverFlattens(fileToCopy) ==
    StripLeading("/", StripLeading("\\", Substring(fileToCopy, Len(sourceFolder))))

\* lines 210-217
RelativePath(fileToCopy) ==
    IF flattenFolders THEN Basename(fileToCopy)
    ELSE StripLeading("/", StripLeading("\\", Substring(fileToCopy, Len(sourceFolder))))

\* line 219
TargetPath(fileToCopy) == PathJoin(targetFolder, RelativePath(fileToCopy))

\* the truth value of an array in a condition: true, whatever its length
ToBoolean(array) == TRUE

\* a call made on the SshHelper, not settled yet
Call(op, arg, file) == [op |-> op, arg |-> arg, file |-> file, st |-> "pending"]

\* the log with its last call settled
Settled(st) == [log EXCEPT ![Len(log)].st = st]

\* lines 244-245: an error thrown in the try block fails the task
Thrown(message) ==
    /\ result' = [status |-> "Failed", message |-> message, count |-> 0]
    /\ pc' = "finally"

\* CatchFileError with the same file tried again
CatchFileErrorRetries ==
    /\ failureCount' = failureCount + 1
    /\ fileIndex' = fileIndex
    /\ pc' = "loop"

\* CatchFileError with the error leaving the loop
CatchFileErrorLeavesLoop ==
    /\ failureCount' = failureCount + 1
    /\ fileIndex' = fileIndex
    /\ pc' = "finally"

\* lines 230-233: an error thrown in the loop body is counted, the loop goes on
CatchFileError ==
    /\ failureCount' = failureCount + 1
    /\ fileIndex' = fileIndex + 1
    /\ pc' = "loop"

(***************************************************************************)
(* run(), one action per stretch of statements between two awaits.         *)
(***************************************************************************)
Init ==
    /\ sourceFolder \in {SourceFolder, SlashedSourceFolder}
    /\ contents \in SeqsUpTo(RawPatterns, MaxRunPatterns) \ {<<>>}
    /\ allPaths \in (IF sourceFolder = SourceFolder THEN RunTrees ELSE {TreeSlashed})
    /\ targetFolder \in TargetFolders
    /\ cleanTargetFolder \in BOOLEAN
    /\ overwrite \in BOOLEAN
    /\ failOnEmptySource \in BOOLEAN
    /\ flattenFolders \in BOOLEAN
    /\ SelectionIdle
    /\ TaskIdle

\* lines 119-175: read the inputs; a required input that is missing throws
ReadInputs ==
    /\ pc = "start"
    /\ \E present \in BOOLEAN :
          IF present
          THEN /\ targetFolder' = NormalizeTargetFolder(targetFolder)
               /\ pc' = "checkSource"
               /\ UNCHANGED result
          ELSE /\ Thrown("InputRequired")
               /\ UNCHANGED targetFolder
    /\ UNCHANGED <<inputs, flags, selection, sshHelper, filesToCopy, fileIndex,
                   failureCount, warnings, log>>

\* CheckSourceFolder without the test of isDirectory
CheckSourceFolderUnchecked ==
    /\ pc = "checkSource"
    /\ pc' = "connect"
    /\ UNCHANGED <<inputs, flags, selection, targetFolder, sshHelper, filesToCopy,
                   fileIndex, failureCount, result, warnings, log>>

\* lines 177-179
CheckSourceFolder ==
    /\ pc = "checkSource"
    /\ IF ~Stats(sourceFolder).isDirectory
       THEN Thrown("SourceNotFolder")
       ELSE /\ pc' = "connect"
            /\ UNCHANGED result
    /\ UNCHANGED <<inputs, flags, selection, targetFolder, sshHelper, filesToCopy,
                   fileIndex, failureCount, warnings, log>>

\* lines 182-183: new SshHelper, setupConnection is called
SetupConnection ==
    /\ pc = "connect"
    /\ sshHelper' = TRUE
    /\ log' = Append(log, Call("setupConnection", <<>>, 0))
    /\ pc' = "connecting"
    /\ UNCHANGED <<inputs, flags, selection, targetFolder, filesToCopy, fileIndex,
                   failureCount, result, warnings>>

\* SetupConnectionSettled with the rejection swallowed
SetupConnectionSettledSwallows ==
    /\ pc = "connecting"
    /\ \E ok \in BOOLEAN :
          /\ log' = Settled(IF ok THEN "ok" ELSE "error")
          /\ pc' = "clean"
          /\ UNCHANGED result
    /\ UNCHANGED <<inputs, flags, selection, targetFolder, sshHelper, filesToCopy,
                   fileIndex, failureCount, warnings>>

\* line 183: setupConnection resolves or rejects
SetupConnectionSettled ==
    /\ pc = "connecting"
    /\ \E ok \in BOOLEAN :
          /\ log' = Settled(IF ok THEN "ok" ELSE "error")
          /\ IF ok
             THEN /\ pc' = "clean"
                  /\ UNCHANGED result
             ELSE Thrown("ConnectionFailed")
    /\ UNCHANGED <<inputs, flags, selection, targetFolder, sshHelper, filesToCopy,
                   fileIndex, failureCount, warnings>>

\* CleanTargetFolder with the clean command run whatever the option
CleanTargetFolderAlways ==
    /\ pc = "clean"
    /\ \E isWindowsOnTarget \in BOOLEAN :
          /\ log' = Append(log, Call("runCommandOnRemoteMachine",
                       getCleanTargetFolderCmd(targetFolder, isWindowsOnTarget), 0))
          /\ pc' = "cleaning"
    /\ UNCHANGED <<inputs, flags, selection, targetFolder, sshHelper, filesToCopy,
                   fileIndex, failureCount, result, warnings>>

\* lines 185-190: the clean command is run when cleanTargetFolder is set
CleanTargetFolder ==
    /\ pc = "clean"
    /\ IF cleanTargetFolder
       THEN \E isWindowsOnTarget \in BOOLEAN :
               /\ log' = Append(log, Call("runCommandOnRemoteMachine",
                            getCleanTargetFolderCmd(targetFolder, isWindowsOnTarget), 0))
               /\ pc' = "cleaning"
       ELSE /\ pc' = "identify"
            /\ UNCHANGED log
    /\ UNCHANGED <<inputs, flags, selection, targetFolder, sshHelper, filesToCopy,
                   fileIndex, failureCount, result, warnings>>

\* CleanTargetFolderSettled with the rejection swallowed
CleanTargetFolderSettledSwallows ==
    /\ pc = "cleaning"
    /\ \E ok \in BOOLEAN :
          /\ log' = Settled(IF ok THEN "ok" ELSE "error")
          /\ pc' = "identify"
          /\ UNCHANGED result
    /\ UNCHANGED <<inputs, flags, selection, targetFolder, sshHelper, filesToCopy,
                   fileIndex, failureCount, warnings>>

\* lines 190-193: the clean command resolves or rejects
CleanTargetFolderSettled ==
    /\ pc = "cleaning"
    /\ \E ok \in BOOLEAN :
          /\ log' = Settled(IF ok THEN "ok" ELSE "error")
          /\ IF ok
             THEN /\ pc' = "identify"
                  /\ UNCHANGED result
             ELSE Thrown("CleanTargetFolderFailed")
    /\ UNCHANGED <<inputs, flags, selection, targetFolder, sshHelper, filesToCopy,
                   fileIndex, failureCount, warnings>>

\* lines 197-205 and 239-243: getFilesToCopy (tl.find may throw), then the
\* branch on filesToCopy
IdentifyFiles ==
    /\ pc = "identify"
    /\ \E found \in BOOLEAN :
          IF ~found
          THEN /\ Thrown("FindFailed")
               /\ UNCHANGED <<filesToCopy, fileIndex, failureCount, warnings>>
          ELSE LET selected == getFilesToCopy(sourceFolder, contents, allPaths)
               IN /\ filesToCopy' = selected
                  /\ IF ToBoolean(selected)
                     THEN /\ failureCount' = 0
                          /\ fileIndex' = 1
                          /\ pc' = "loop"
                          /\ UNCHANGED <<result, warnings>>
                     ELSE IF failOnEmptySource
                     THEN /\ Thrown("NothingToCopy")
                          /\ UNCHANGED <<fileIndex, failureCount, warnings>>
                     ELSE /\ warnings' = Append(warnings, "NothingToCopy")
                          /\ pc' = "finally"
                          /\ UNCHANGED <<fileIndex, failureCount, result>>
    /\ UNCHANGED <<inputs, flags, selection, targetFolder, sshHelper, log>>

\* StartFile with the overwrite option taken as set
StartFileAlwaysOverwrites ==
    /\ pc = "loop"
    /\ fileIndex <= Len(filesToCopy)
    /\ log' = Append(log, Call("uploadFile", TargetPath(filesToCopy[fileIndex]), fileIndex))
    /\ pc' = "uploading"
    /\ UNCHANGED <<inputs, flags, selection, targetFolder, sshHelper, filesToCopy,
                   fileIndex, failureCount, result, warnings>>

\* StartFile with the upload not awaited
StartFileWithoutAwait ==
    /\ pc = "loop"
    /\ fileIndex <= Len(filesToCopy)
    /\ log' = Append(log, Call("uploadFile", TargetPath(filesToCopy[fileIndex]), fileIndex))
    /\ fileIndex' = fileIndex + 1
    /\ pc' = "loop"
    /\ UNCHANGED <<inputs, flags, selection, targetFolder, sshHelper, filesToCopy,
                   failureCount, result, warnings>>

\* lines 206-229: the next file; its existence check when overwrite is off,
\* else its upload
StartFile ==
    /\ pc = "loop"
    /\ fileIndex <= Len(filesToCopy)
    /\ LET fileToCopy == filesToCopy[fileIndex]
       IN IF ~overwrite
          THEN /\ log' = Append(log, Call("checkRemotePathExists",
                                          TargetPath(fileToCopy), fileIndex))
               /\ pc' = "checking"
          ELSE /\ log' = Append(log, Call("uploadFile", TargetPath(fileToCopy), fileIndex))
               /\ pc' = "uploading"
    /\ UNCHANGED <<inputs, flags, selection, targetFolder, sshHelper, filesToCopy,
                   fileIndex, failureCount, result, warnings>>

\* CheckRemotePathExistsSettled with the test of fileExists inverted
CheckRemotePathExistsSettledInverted ==
    /\ pc = "checking"
    /\ \E answer \in {"true", "false", "error"} :
          IF answer = "true"
          THEN /\ log' = Append(Settled(answer),
                                Call("uploadFile", log[Len(log)].arg, fileIndex))
               /\ pc' = "uploading"
               /\ UNCHANGED <<fileIndex, failureCount>>
          ELSE /\ log' = Settled(answer)
               /\ CatchFileError
    /\ UNCHANGED <<inputs, flags, selection, targetFolder, sshHelper, filesToCopy,
                   result, warnings>>

\* lines 223-229: checkRemotePathExists answers or rejects
CheckRemotePathExistsSettled ==
    /\ pc = "checking"
    /\ \E answer \in {"true", "false", "error"} :
          IF answer = "false"
          THEN /\ log' = Append(Settled(answer),
                                Call("uploadFile", log[Len(log)].arg, fileIndex))
               /\ pc' = "uploading"
               /\ UNCHANGED <<fileIndex, failureCount>>
          ELSE /\ log' = Settled(answer)
               /\ CatchFileError
    /\ UNCHANGED <<inputs, flags, selection, targetFolder, sshHelper, filesToCopy,
                   result, warnings>>

\* UploadFileSettled with a rejected upload not counted
UploadFileSettledUncounted ==
    /\ pc = "uploading"
    /\ \E ok \in BOOLEAN :
          /\ log' = Settled(IF ok THEN "ok" ELSE "error")
          /\ fileIndex' = fileIndex + 1
          /\ pc' = "loop"
          /\ UNCHANGED failureCount
    /\ UNCHANGED <<inputs, flags, selection, targetFolder, sshHelper, filesToCopy,
                   result, warnings>>

\* lines 229-234: uploadFile resolves or rejects
UploadFileSettled ==
    /\ pc = "uploading"
    /\ \E ok \in BOOLEAN :
          /\ log' = Settled(IF ok THEN "ok" ELSE "error")
          /\ IF ok
             THEN /\ fileIndex' = fileIndex + 1
                  /\ pc' = "loop"
                  /\ UNCHANGED failureCount
             ELSE CatchFileError
    /\ UNCHANGED <<inputs, flags, selection, targetFolder, sshHelper, filesToCopy,
                   result, warnings>>

\* lines 235-238: after the loop
CopyCompleted ==
    /\ pc = "loop"
    /\ fileIndex > Len(filesToCopy)
    /\ result' = IF failureCount # 0
                 THEN [status |-> "Failed", message |-> "NumberFailed",
                       count |-> failureCount]
                 ELSE result
    /\ pc' = "finally"
    /\ UNCHANGED <<inputs, flags, selection, targetFolder, sshHelper, filesToCopy,
                   fileIndex, failureCount, warnings, log>>

\* Finally with the connection closed on the success path only
FinallyOnSuccessOnly ==
    /\ pc = "finally"
    /\ log' = IF sshHelper /\ result.status # "Failed"
              THEN Append(log, [Call("closeConnection", <<>>, 0) EXCEPT !.st = "ok"])
              ELSE log
    /\ pc' = "done"
    /\ UNCHANGED <<inputs, flags, selection, targetFolder, sshHelper, filesToCopy,
                   fileIndex, failureCount, result, warnings>>

\* lines 246-252: close the connection of the helper, if there is one
Finally ==
    /\ pc = "finally"
    /\ log' = IF sshHelper
              THEN Append(log, [Call("closeConnection", <<>>, 0) EXCEPT !.st = "ok"])
              ELSE log
    /\ pc' = "done"
    /\ UNCHANGED <<inputs, flags, selection, targetFolder, sshHelper, filesToCopy,
                   fileIndex, failureCount, result, warnings>>

Next ==
    \/ ReadInputs
    \/ CheckSourceFolder
    \/ SetupConnection
    \/ SetupConnectionSettled
    \/ CleanTargetFolder
    \/ CleanTargetFolderSettled
    \/ IdentifyFiles
    \/ StartFile
    \/ CheckRemotePathExistsSettled
    \/ UploadFileSettled
    \/ CopyCompleted
    \/ Finally

Spec == Init /\ [][Next]_vars

(***************************************************************************)
(* Properties of run().                                                    *)
(***************************************************************************)
CallsOf(ops) == {j \in 1..Len(log) : log[j].op \in ops}

FileCalls(i) ==
    {j \in CallsOf({"checkRemotePathExists", "uploadFile"}) : log[j].file = i}

\* file i of the selection had its existence check or its transfer issued
Attempted(i) == FileCalls(i) # {}

\* file i failed: its target exists, or its check or its transfer rejected
FileFailed(i) == \E j \in FileCalls(i) : log[j].st \in {"true", "error"}

\* file i was transferred
Uploaded(i) == \E j \in FileCalls(i) : log[j].op = "uploadFile" /\ log[j].st = "ok"

\* the errors thrown before getFilesToCopy returns
EarlierFatal ==
    result.message \in {"InputRequired", "SourceNotFolder", "ConnectionFailed",
                        "CleanTargetFolderFailed", "FindFailed"}

\* getFilesToCopy returned in this run
SelectionReturned ==
    \/ pc \in {"loop", "checking", "uploading"}
    \/ (pc \in {"finally", "done"} /\ ~EarlierFatal)

CleanFailed ==
    \E j \in CallsOf({"runCommandOnRemoteMachine"}) : log[j].st = "error"

\* C1 as stated: whatever the run reached and wherever a fatal error occurred
\* (invalid source root, connection failure, clean-command failure, selection
\* failure, or none), the session's close is invoked exactly once before the
\* run ends.
DisconnectExactlyOnce ==
    (pc = "done" /\ result.message # "InputRequired")
        => Cardinality(CallsOf({"closeConnection"})) = 1

\* C1 amended: in every run that created the SshHelper (inputs read, source root
\* a directory), whether connecting, the clean command, the selection or nothing
\* failed, close is invoked exactly once, as the last call, before the run ends;
\* a run that fails before the helper is created (invalid source root, missing
\* input) never invokes close; close is never invoked before the end of the run.
DisconnectOncePerSession ==
    /\ pc # "done" => CallsOf({"closeConnection"}) = {}
    /\ pc = "done" =>
          IF CallsOf({"setupConnection"}) # {}
          THEN /\ CallsOf({"closeConnection"}) = {Len(log)}
               /\ result.message \notin {"InputRequired", "SourceNotFolder"}
          ELSE /\ CallsOf({"closeConnection"}) = {}
               /\ result.message \in {"InputRequired", "SourceNotFolder"}

DisconnectAfterConnectionFailure ==
    /\ pc = "done"
    /\ result.message = "ConnectionFailed"
    /\ Cardinality(CallsOf({"closeConnection"})) = 1

\* C2: once the copy loop is reached every file of the selection is attempted,
\* however many earlier files failed: during the loop every file before the
\* current one was attempted, and after it every file of the selection.
EveryFileAttempted ==
    /\ pc = "loop" => \A i \in 1..(fileIndex - 1) : Attempted(i)
    /\ pc \in {"finally", "done"} => \A i \in 1..Len(filesToCopy) : Attempted(i)

LaterFileAttemptedAfterFailures ==
    /\ pc = "done"
    /\ Len(filesToCopy) = 3
    /\ FileFailed(1)
    /\ FileFailed(2)
    /\ \E j \in FileCalls(1) : log[j].st = "true"
    /\ \E j \in FileCalls(2) : log[j].st = "error"
    /\ Uploaded(3)

\* C3: a selection of zero files with failOnEmptySource set ends the run Failed,
\* with no existence check and no transfer issued.
EmptySelectionFailsWhenConfigured ==
    (pc = "done" /\ SelectionReturned /\ filesToCopy = <<>> /\ failOnEmptySource)
        => /\ result.status = "Failed"
           /\ CallsOf({"checkRemotePathExists", "uploadFile"}) = {}

\* C4: a selection of zero files with failOnEmptySource off ends the run not
\* Failed, with no transfer issued and a warning recorded.
EmptySelectionWarns ==
    (pc = "done" /\ SelectionReturned /\ filesToCopy = <<>> /\ ~failOnEmptySource)
        => /\ result.status # "Failed"
           /\ CallsOf({"uploadFile"}) = {}
           /\ warnings # <<>>

\* C5: the run ends Failed exactly when the failure counter is nonzero after
\* the copy loop or a fatal error occurred: an invalid source, a connection or
\* clean-command failure, a failure of the task library, or an empty selection
\* with failOnEmptySource set.
FailedIffCountOrFatal ==
    pc = "done" =>
        (result.status = "Failed" <=>
            \/ failureCount # 0
            \/ EarlierFatal
            \/ (SelectionReturned /\ filesToCopy = <<>> /\ failOnEmptySource))

\* C6: when the clean command fails, no file is attempted, the result is Failed
\* with the clean failure, nothing but the close follows, and the run ends with
\* the connection closed.
CleanFailureIsFatal ==
    CleanFailed =>
        /\ cleanTargetFolder
        /\ CallsOf({"checkRemotePathExists", "uploadFile"}) = {}
        /\ result.status = "Failed"
        /\ result.message = "CleanTargetFolderFailed"
        /\ pc \in {"finally", "done"}
        /\ pc = "done" => log[Len(log)].op = "closeConnection"

CleanFailedRunClosed ==
    /\ pc = "done"
    /\ CleanFailed
    /\ log[Len(log)].op = "closeConnection"

ConflictFiles == {i \in 1..Len(filesToCopy) : \E j \in FileCalls(i) : log[j].st = "true"}

\* C7: with overwrite off, a transfer of a file follows an existence check of
\* its target path that answered false; a file whose target exists gets no
\* transfer and one failure; the failure counter is the number of failed files,
\* so k conflicts and no other failure report k, the other files transferred.
\* With overwrite on there is no existence check and every file is transferred.
ExistenceCheckGuardsTransfer ==
    /\ ~overwrite =>
          /\ \A j \in CallsOf({"uploadFile"}) :
                \E k \in 1..(j - 1) :
                    /\ log[k].op = "checkRemotePathExists"
                    /\ log[k].file = log[j].file
                    /\ log[k].arg = log[j].arg
                    /\ log[k].st = "false"
          /\ \A i \in ConflictFiles :
                \A j \in FileCalls(i) : log[j].op # "uploadFile"
          /\ pc \in {"loop", "finally", "done"} =>
                failureCount = Cardinality({i \in 1..Len(filesToCopy) : FileFailed(i)})
          /\ (pc = "done" /\ \A j \in 1..Len(log) : log[j].st # "error") =>
                /\ failureCount = Cardinality(ConflictFiles)
                /\ ConflictFiles # {} => result.count = Cardinality(ConflictFiles)
                /\ \A i \in 1..Len(filesToCopy) : i \notin ConflictFiles => Uploaded(i)
    /\ overwrite =>
          /\ CallsOf({"checkRemotePathExists"}) = {}
          /\ pc \in {"finally", "done"} =>
                \A i \in 1..Len(filesToCopy) :
                    \E j \in FileCalls(i) : log[j].op = "uploadFile"

OneConflictOthersCopied ==
    /\ pc = "done"
    /\ ~overwrite
    /\ Len(filesToCopy) = 3
    /\ ConflictFiles = {2}
    /\ Uploaded(1)
    /\ Uploaded(3)
    /\ result.count = 1

(***************************************************************************)
(* Properties of getFilesToCopy.                                           *)
(***************************************************************************)
Elements(q) == {q[i] : i \in 1..Len(q)}

NoDuplicates(q) == \A i, j \in 1..Len(q) : q[i] = q[j] => i = j

RECURSIVE IsSubsequence(_, _)
IsSubsequence(a, b) ==
    IF a = <<>> THEN TRUE
    ELSE IF b = <<>> THEN FALSE
    ELSE IF Head(a) = Head(b) THEN IsSubsequence(Tail(a), Tail(b))
    ELSE IsSubsequence(a, Tail(b))

IndexIn(q, x) == CHOOSE i \in 1..Len(q) : q[i] = x

Matches(pattern) == Elements(MinimatchMatch(allFiles, pattern, matchOptions))

\* the first include pattern that matches f
FirstMatch(f) ==
    CHOOSE k \in 1..Len(includeContents) :
        /\ f \in Matches(includeContents[k])
        /\ \A m \in 1..(k - 1) : f \notin Matches(includeContents[m])

\* C8: with no exclude pattern the result is the union of the matches of the
\* include patterns over the enumerated files, without duplicates, ordered by
\* the first pattern that matches and, within a pattern, as enumerated.
IncludeOnlyIsDedupUnion ==
    (gpc = "returned" /\ excludeContents = <<>>) =>
        /\ Elements(files) = UNION {Matches(includeContents[k]) : k \in 1..Len(includeContents)}
        /\ NoDuplicates(files)
        /\ \A i, j \in 1..Len(files) :
              i < j =>
                 \/ FirstMatch(files[i]) < FirstMatch(files[j])
                 \/ /\ FirstMatch(files[i]) = FirstMatch(files[j])
                    /\ IndexIn(allFiles, files[i]) < IndexIn(allFiles, files[j])

OverlappingIncludesReturned ==
    /\ gpc = "returned"
    /\ excludeContents = <<>>
    /\ Len(includeContents) >= 2
    /\ Matches(includeContents[1]) \cap Matches(includeContents[2]) # {}
    /\ Len(files) = 3
    /\ files # allFiles

Negated(rawPattern) == ScanNegations(Trim(rawPattern), FALSE, 0).negate

NumberOfIncludes == Cardinality({k \in 1..Len(contents) : ~Negated(contents[k])})

NumberOfExcludes == Cardinality({k \in 1..Len(contents) : Negated(contents[k])})

\* C9: with an exclude pattern and no include pattern the include list is the
\* injected `**` alone and the result is the enumerated files that every exclude
\* pattern keeps, as enumerated; with an include pattern, or with no pattern,
\* the include list holds the declared include patterns only.
ExcludeOnlyInjectsIncludeAll ==
    /\ gpc \in {"include", "exclude", "returned"} =>
          IF NumberOfIncludes = 0 /\ NumberOfExcludes > 0
          THEN includeContents = <<GLOBSTAR>>
          ELSE /\ Len(includeContents) = NumberOfIncludes
               /\ \A k \in 1..Len(includeContents) :
                     \E m \in 1..Len(contents) :
                         /\ ~Negated(contents[m])
                         /\ includeContents[k] = PathJoin(sourceFolder, Trim(contents[m]))
    /\ (gpc = "returned" /\ NumberOfIncludes = 0 /\ NumberOfExcludes > 0) =>
          /\ allFiles = RemoveFolders(allPaths)
          /\ files = SelectSeq(allFiles,
                        LAMBDA f : \A k \in 1..Len(excludeContents) :
                                      MinimatchOne(f, excludeContents[k], matchOptions))

ExcludeOnlyNarrowed ==
    /\ gpc = "returned"
    /\ NumberOfIncludes = 0
    /\ includeContents = <<GLOBSTAR>>
    /\ Len(excludeContents) = 2
    /\ Len(files) = 1
    /\ Len(allFiles) = 3

\* C10: each step of the exclude phase leaves a subsequence of the working
\* result it started from, so the result never grows, and the working result
\* of the exclude phase is a duplicate-free subset of the enumerated files.
ExcludeNarrowingMonotonic ==
    /\ [][gpc = "exclude" => (IsSubsequence(files', files) /\ Len(files') <= Len(files))]_vars
    /\ [](gpc \in {"exclude", "returned"} =>
            (NoDuplicates(files) /\ Elements(files) \subseteq Elements(allFiles)))

TwoExcludesNarrowed ==
    /\ gpc = "returned"
    /\ Len(excludeContents) = 2
    /\ Len(files) = 1
    /\ Cardinality(pathsSeen) = 3

(***************************************************************************)
(* Properties of the target path.                                          *)
(***************************************************************************)
\* the path with the source folder in front of it removed
WithoutSourceFolder(f) ==
    CHOOSE rest \in {SubSeq(f, n, Len(f)) : n \in 1..(Len(f) + 1)} :
        f = sourceFolder \o rest

\* a path with one leading separator, of either style, removed
WithoutOneSeparator(r) ==
    IF r # <<>> /\ Head(r) \in {"/", "\\"} THEN Tail(r) ELSE r

\* the name after the last separator of a path
IsBasenameOf(b, f) ==
    /\ b # <<>>
    /\ \A i \in 1..Len(b) : b[i] # "/"
    /\ Len(f) > Len(b)
    /\ SubSeq(f, Len(f) - Len(b), Len(f)) = <<"/">> \o b

\* C11 as stated: the relative path of a selected file is its basename when
\* flattenFolders is set, else its path with the source folder removed and then
\* exactly one leading separator, of either style, removed; the target path is
\* the POSIX join of the target folder and the relative path.
RelativePathStripsOneSeparator ==
    \A j \in CallsOf({"checkRemotePathExists", "uploadFile"}) :
        LET f == filesToCopy[log[j].file]
        IN /\ IF flattenFolders
              THEN IsBasenameOf(RelativePath(f), f)
              ELSE RelativePath(f) = WithoutOneSeparator(WithoutSourceFolder(f))
           /\ log[j].arg = PathJoin(targetFolder, RelativePath(f))

\* C11 amended: as stated, but with flattenFolders off the path with the source
\* folder removed loses one leading backslash, if it has one, and then one
\* leading forward slash, if it has one: a remainder that starts with a
\* backslash followed by a forward slash loses both.
RelativePathStripsBackslashThenSlash ==
    \A j \in CallsOf({"checkRemotePathExists", "uploadFile"}) :
        LET f == filesToCopy[log[j].file]
            rest == WithoutSourceFolder(f)
            noBackslash == IF rest # <<>> /\ Head(rest) = "\\" THEN Tail(rest) ELSE rest
            noSlash == IF noBackslash # <<>> /\ Head(noBackslash) = "/"
                       THEN Tail(noBackslash) ELSE noBackslash
        IN /\ IF flattenFolders
              THEN IsBasenameOf(RelativePath(f), f)
              ELSE RelativePath(f) = noSlash
           /\ log[j].arg = PathJoin(targetFolder, RelativePath(f))

BothSeparatorsStripped ==
    /\ ~flattenFolders
    /\ \E j \in CallsOf({"uploadFile"}) :
          /\ filesToCopy[log[j].file] = <<"/", "s", "/", "\\", "/", "a">>
          /\ log[j].arg = <<"a">>
          /\ log[j].st = "ok"

(***************************************************************************)
(* Properties of the order of the remote calls.                            *)
(***************************************************************************)
ConnectionFailed ==
    \E j \in CallsOf({"setupConnection"}) : log[j].st = "error"

\* C12: when setupConnection fails the run goes to the close and the report of
\* the failure: no clean command, no selection, no existence check and no
\* transfer; the log ends as the connection attempt followed by the close.
ConnectionFailureSkipsTheRest ==
    ConnectionFailed =>
        /\ CallsOf({"runCommandOnRemoteMachine", "checkRemotePathExists",
                    "uploadFile"}) = {}
        /\ ~SelectionReturned
        /\ filesToCopy = <<>>
        /\ result = [status |-> "Failed", message |-> "ConnectionFailed", count |-> 0]
        /\ pc \in {"finally", "done"}
        /\ pc = "finally" => Len(log) = 1
        /\ pc = "done" => (Len(log) = 2 /\ log[2].op = "closeConnection")

ConnectionFailedRunEnded ==
    /\ pc = "done"
    /\ ConnectionFailed
    /\ cleanTargetFolder
    /\ Len(log) = 2

SourceIsFolder == Stats(sourceFolder).isDirectory

\* C13: when the source root is not a directory the run fails before any
\* remote call: no SshHelper is created, nothing is ever logged, and the run
\* ends Failed.
InvalidSourcePreemptsConnection ==
    ~SourceIsFolder =>
        /\ log = <<>>
        /\ ~sshHelper
        /\ pc \in {"start", "checkSource", "finally", "done"}
        /\ pc \in {"finally", "done"} =>
              /\ result.status = "Failed"
              /\ result.message \in {"InputRequired", "SourceNotFolder"}

InvalidSourceRunEnded ==
    /\ pc = "done"
    /\ ~SourceIsFolder
    /\ result.message = "SourceNotFolder"
    /\ log = <<>>

(***************************************************************************)
(* Properties of the classification and of the exclude phase.              *)
(***************************************************************************)
\* the result of the include phase
IncludePhase == ApplyIncludes(includeContents, <<>>, {}, allFiles)

\* the number of consecutive `!` characters a pattern starts with
LeadingBangs(p) ==
    CHOOSE n \in 0..Len(p) :
        /\ \A i \in 1..n : p[i] = "!"
        /\ n < Len(p) => p[n + 1] # "!"

\* an exclude expression without its leading run of `!`
InnerForm(e) == SubSeq(e, LeadingBangs(e) + 1, Len(e))

\* f matches the inner form of no exclude pattern
Survives(f) ==
    \A k \in 1..Len(excludeContents) :
        ~MinimatchOne(f, InnerForm(excludeContents[k]), matchOptions)

Orderings(n) == {q \in [1..n -> 1..n] : \A i, j \in 1..n : q[i] = q[j] => i = j}

\* C14: a file is in the result exactly when it is in the result of the
\* include phase and matches the inner form of no exclude pattern, in the order
\* of the include phase; every ordering of the exclude patterns gives the same
\* result.
ExcludesComposeByIntersection ==
    gpc = "returned" =>
        /\ Elements(files) = {f \in Elements(IncludePhase) : Survives(f)}
        /\ files = SelectSeq(IncludePhase, Survives)
        /\ \A q \in Orderings(Len(excludeContents)) :
              LET reordered == [k \in 1..Len(excludeContents) |-> excludeContents[q[k]]]
              IN Elements(ApplyExcludes(reordered, IncludePhase, allFiles))
                    = Elements(files)

DistinctExcludesNarrowed ==
    /\ gpc = "returned"
    /\ NumberOfIncludes >= 1
    /\ Len(excludeContents) = 2
    /\ excludeContents[1] # excludeContents[2]
    /\ Len(IncludePhase) = 3
    /\ Len(files) = 1
    /\ \E f \in Elements(IncludePhase) :
          /\ MinimatchOne(f, InnerForm(excludeContents[1]), matchOptions)
          /\ ~MinimatchOne(f, InnerForm(excludeContents[2]), matchOptions)
    /\ \E f \in Elements(IncludePhase) :
          /\ ~MinimatchOne(f, InnerForm(excludeContents[1]), matchOptions)
          /\ MinimatchOne(f, InnerForm(excludeContents[2]), matchOptions)

\* the expression the classifier builds for a trimmed pattern
ExpectedExpression(p) ==
    LET n == LeadingBangs(p)
    IN IF n % 2 = 1
       THEN SubSeq(p, 1, n) \o PathJoin(sourceFolder, SubSeq(p, n + 1, Len(p)))
       ELSE PathJoin(sourceFolder, p)

\* the expressions of the first k patterns whose count of `!` is odd, or even
RECURSIVE ExpectedClass(_, _)
ExpectedClass(k, odd) ==
    IF k = 0 THEN <<>>
    ELSE LET p == Trim(contents[k])
         IN ExpectedClass(k - 1, odd)
               \o (IF (LeadingBangs(p) % 2 = 1) = odd
                   THEN <<ExpectedExpression(p)>> ELSE <<>>)

\* C15: a trimmed pattern is an exclude pattern exactly when its count of
\* leading `!` is odd; its expression is that run of `!` followed by the join of
\* the source folder and the rest; an include expression is the join of the
\* source folder and the whole pattern, an even run of `!` kept in it; each
\* class keeps the declared order.
ClassifierCountsNegations ==
    /\ gpc = "classify" =>
          /\ includeContents = ExpectedClass(ix - 1, FALSE)
          /\ excludeContents = ExpectedClass(ix - 1, TRUE)
          /\ \A k \in 1..(ix - 1) :
                LET p == Trim(contents[k])
                    n == LeadingBangs(p)
                IN (n > 0 /\ n % 2 = 0) =>
                      \E m \in 1..Len(includeContents) :
                          includeContents[m] = sourceFolder \o <<"/">> \o p
    /\ gpc # "classify" => excludeContents = ExpectedClass(Len(contents), TRUE)

EvenAndOddRunsClassified ==
    /\ gpc = "classify"
    /\ ix = 4
    /\ \E m \in 1..Len(includeContents) :
          includeContents[m] = <<"/", "s", "/", "!", "!", "a">>
    /\ \E m \in 1..Len(excludeContents) :
          excludeContents[m] = <<"!", "!", "!", "/", "s", "/", "*", "*", "/", "a">>
    /\ \E m \in 1..Len(excludeContents) :
          excludeContents[m] = <<"!", "/", "s", "/", "a">>

(***************************************************************************)
(* Properties of the sequencing of the remote calls.                       *)
(***************************************************************************)
\* the calls that are not settled yet
InFlight == {j \in 1..Len(log) : log[j].st = "pending"}

\* C16: at most one remote call is in flight, it is the last one issued, and
\* a call on a later file of the selection is issued only when every call on
\* the earlier files is settled.
OneCallInFlight ==
    /\ Cardinality(InFlight) <= 1
    /\ InFlight \subseteq {Len(log)}
    /\ \A j, k \in CallsOf({"checkRemotePathExists", "uploadFile"}) :
          j < k => /\ log[j].file <= log[k].file
                   /\ (log[j].file < log[k].file => log[j].st # "pending")
    /\ \A i \in 1..Len(filesToCopy) :
          Attempted(i) => \A h \in 1..(i - 1) :
                             /\ Attempted(h)
                             /\ \A j \in FileCalls(h) : log[j].st # "pending"

SecondFileInFlightAfterFirstFailed ==
    /\ pc = "uploading"
    /\ fileIndex = 2
    /\ InFlight = {Len(log)}
    /\ log[Len(log)].file = 2
    /\ \E j \in FileCalls(1) : log[j].st = "error"

\* the calls of one operation made for file i
FileCallsOf(op, i) == {j \in FileCalls(i) : log[j].op = op}

\* C17: the connection is set up at most once, the clean command is run at
\* most once, and a file has at most one existence check and at most one
\* upload, whatever their outcome.
NoCallRepeated ==
    /\ Cardinality(CallsOf({"setupConnection"})) <= 1
    /\ Cardinality(CallsOf({"runCommandOnRemoteMachine"})) <= 1
    /\ \A i \in 1..Len(filesToCopy) :
          /\ Cardinality(FileCallsOf("checkRemotePathExists", i)) <= 1
          /\ Cardinality(FileCallsOf("uploadFile", i)) <= 1

FailedCallsNotRepeated ==
    /\ pc = "done"
    /\ Len(filesToCopy) = 3
    /\ Cardinality(CallsOf({"runCommandOnRemoteMachine"})) = 1
    /\ \E i \in 1..3 : \E j \in FileCallsOf("checkRemotePathExists", i) : log[j].st = "error"
    /\ \E i \in 1..3 : \E j \in FileCallsOf("uploadFile", i) : log[j].st = "error"
    /\ \A i \in 1..3 : Cardinality(FileCallsOf("checkRemotePathExists", i)) = 1
    /\ failureCount = 3

\* the existence check never answers false for a path uploaded in this run
ConsistentRemote ==
    \A j \in CallsOf({"checkRemotePathExists"}) :
        log[j].st = "false" =>
            ~\E k \in 1..(j - 1) : /\ log[k].op = "uploadFile"
                                   /\ log[k].st = "ok"
                                   /\ log[k].arg = log[j].arg

\* the pairs of selected files, in order, that have the same basename
SameBasename ==
    {ij \in (1..Len(filesToCopy)) \X (1..Len(filesToCopy)) :
        /\ ij[1] < ij[2]
        /\ Basename(filesToCopy[ij[1]]) = Basename(filesToCopy[ij[2]])}

\* the files before the current one that were not transferred
NotUploadedSoFar == {i \in 1..(fileIndex - 1) : ~Uploaded(i)}

\* C18: with flattenFolders, files of the same basename have the same target
\* path.  When overwrite is off and the existence check reflects the uploads
\* of the run, no target path is uploaded to twice: once the first file is
\* uploaded, the later one gets an existence check that answers true or
\* rejects, no upload, and one failure.  When overwrite is on the later file is
\* uploaded to the same path without an existence check and fails only if its
\* own upload rejects.
FlattenedCollisionGuarded ==
    (flattenFolders /\ SelectionReturned) =>
        /\ \A ij \in SameBasename :
              TargetPath(filesToCopy[ij[1]]) = TargetPath(filesToCopy[ij[2]])
        /\ (~overwrite /\ ConsistentRemote) =>
              /\ \A j, k \in CallsOf({"uploadFile"}) :
                    (j # k /\ log[j].st = "ok" /\ log[k].st = "ok")
                        => log[j].arg # log[k].arg
              /\ \A ij \in SameBasename :
                    (Uploaded(ij[1]) /\ Attempted(ij[2])) =>
                        /\ FileCallsOf("uploadFile", ij[2]) = {}
                        /\ \A j \in FileCalls(ij[2]) :
                              log[j].st \in {"pending", "true", "error"}
                        /\ fileIndex > ij[2] => /\ FileFailed(ij[2])
                                                /\ ij[2] \in NotUploadedSoFar
              /\ pc = "loop" => failureCount = Cardinality(NotUploadedSoFar)
        /\ overwrite =>
              /\ CallsOf({"checkRemotePathExists"}) = {}
              /\ \A ij \in SameBasename :
                    Attempted(ij[2]) =>
                        \E j \in FileCalls(ij[2]), k \in FileCalls(ij[1]) :
                            /\ log[j].op = "uploadFile"
                            /\ log[k].op = "uploadFile"
                            /\ log[j].arg = log[k].arg
                            /\ FileFailed(ij[2]) <=> log[j].st = "error"
              /\ (pc = "done" /\ \A j \in CallsOf({"uploadFile"}) : log[j].st = "ok")
                    => failureCount = 0 /\ result.status # "Failed"

SameBasenameSecondRefused ==
    /\ pc = "done"
    /\ flattenFolders
    /\ ~overwrite
    /\ ConsistentRemote
    /\ \E ij \in SameBasename :
          /\ Uploaded(ij[1])
          /\ \E j \in FileCalls(ij[2]) :
                log[j].op = "checkRemotePathExists" /\ log[j].st = "true"
    /\ failureCount = 1
    /\ result.message = "NumberFailed"

\* a target path uploaded to twice when overwrite is on
SameBasenameOverwritten ==
    /\ pc = "done"
    /\ flattenFolders
    /\ overwrite
    /\ \E ij \in SameBasename : Uploaded(ij[1]) /\ Uploaded(ij[2])
    /\ failureCount = 0

\* C19: setupConnection is the first call; the clean command is the second
\* call, made only when cleanTargetFolder is set and the connection is set up,
\* and is settled without error before any call on a file; closeConnection is
\* the last call of the run and nothing follows it.
CallsInOrder ==
    \A j \in 1..Len(log) :
        /\ log[j].op = "setupConnection" => j = 1
        /\ log[j].op = "runCommandOnRemoteMachine" =>
              /\ j = 2
              /\ cleanTargetFolder
              /\ log[1].op = "setupConnection" /\ log[1].st = "ok"
        /\ log[j].op \in {"checkRemotePathExists", "uploadFile"} =>
              /\ log[1].op = "setupConnection" /\ log[1].st = "ok"
              /\ cleanTargetFolder =>
                    log[2].op = "runCommandOnRemoteMachine" /\ log[2].st = "ok"
              /\ \A k \in (j + 1)..Len(log) :
                    log[k].op \notin {"setupConnection", "runCommandOnRemoteMachine"}
        /\ log[j].op = "closeConnection" => j = Len(log) /\ pc = "done"

AllKindsOfCallInOrder ==
    /\ pc = "done"
    /\ Len(log) >= 5
    /\ log[2].op = "runCommandOnRemoteMachine"
    /\ log[3].op = "checkRemotePathExists"
    /\ log[4].op = "uploadFile"
    /\ log[Len(log)].op = "closeConnection"

\* the files of the selection that were transferred
UploadedFiles == {i \in 1..Len(filesToCopy) : Uploaded(i)}

\* C20: in the loop failureCount is at most the number of files processed, and
\* a step adds at most one to it, together with the move to the next file;
\* after the loop failureCount plus the number of transferred files is the
\* size of the selection; a file whose existence check answered true or
\* rejected has no upload.
FailureCountAccountsForFiles ==
    /\ [][(SelectionReturned /\ SelectionReturned') =>
             /\ failureCount' \in {failureCount, failureCount + 1}
             /\ failureCount' # failureCount => fileIndex' = fileIndex + 1]_vars
    /\ [](SelectionReturned =>
             /\ failureCount <= fileIndex - 1
             /\ fileIndex - 1 <= Len(filesToCopy)
             /\ pc \in {"finally", "done"} =>
                   failureCount + Cardinality(UploadedFiles) = Len(filesToCopy)
             /\ \A i \in 1..Len(filesToCopy) :
                   (\E j \in FileCallsOf("checkRemotePathExists", i) :
                       log[j].st \in {"true", "error"})
                       => FileCallsOf("uploadFile", i) = {})

TwoFailuresOneTransfer ==
    /\ pc = "finally"
    /\ Len(filesToCopy) = 3
    /\ failureCount = 2
    /\ Cardinality(UploadedFiles) = 1
    /\ \E i \in 1..3 : \E j \in FileCallsOf("checkRemotePathExists", i) : log[j].st = "true"
    /\ \E i \in 1..3 : \E j \in FileCallsOf("uploadFile", i) : log[j].st = "error"

====
